---- MODULE Spec2Model ----
(***************************************************************************)
(* Loss aggregation of lib/core/loss.py: MultiHeadLoss, get_loss,         *)
(* smooth_BCE and FocalLoss.                                               *)
(*                                                                         *)
(* Numbers.  A Python float (a configuration scalar) is an integer count  *)
(* of 1/Q (binary fixed point).  A tensor element is a record             *)
(* [nan, v]: v counts 1/Q, and nan marks a non-finite value, which every  *)
(* arithmetic operation propagates (0 * nan = nan, as in IEEE 754).       *)
(* A tensor is [dim, e]: dim = 0 for a scalar tensor (e has one element), *)
(* dim = 1 for a flattened tensor, dim = -1 for a call that raised.       *)
(***************************************************************************)
EXTENDS Integers, Sequences, FiniteSets, TLC

\* ------------------------------------------------------------ bounds
MaxLen == 2
MaxGamma == 2

\* ------------------------------------------------------------ numbers
Q == 2 ^ 10
Half == Q \div 2
Ln2 == (693 * Q) \div 1000
SatLogit == 20 * Q

NaN == [nan |-> TRUE, v |-> 0]
Fin(x) == [nan |-> FALSE, v |-> x]
Zero == Fin(0)
One == Fin(Q)

FAdd(a, b) == IF a.nan \/ b.nan THEN NaN ELSE Fin(a.v + b.v)
FSub(a, b) == IF a.nan \/ b.nan THEN NaN ELSE Fin(a.v - b.v)
FMul(a, b) == IF a.nan \/ b.nan THEN NaN ELSE Fin((a.v * b.v) \div Q)
FDivN(a, n) == IF a.nan \/ n = 0 THEN NaN ELSE Fin(a.v \div n)

RECURSIVE FPowN(_, _)
FPowN(a, k) == IF k = 0 THEN One ELSE FMul(a, FPowN(a, k - 1))
\* x ** gamma for gamma a whole number of Q
FPow(a, gamma) == FPowN(a, gamma \div Q)

RECURSIVE FSum(_)
FSum(s) == IF s = <<>> THEN Zero ELSE FAdd(s[1], FSum(Tail(s)))

Scalar(x) == [dim |-> 0, e |-> <<x>>]
Vec(s) == [dim |-> 1, e |-> s]
Raised == [dim |-> -1, e |-> <<>>]

\* tensor.mean() and tensor.sum()
Mean(s) == Scalar(FDivN(FSum(s), Len(s)))
Sum(s) == Scalar(FSum(s))

\* torch.sigmoid, tabulated at the saturated and the zero logit
Sigmoid(z) ==
  IF z.nan THEN NaN
  ELSE IF z.v >= SatLogit THEN One
  ELSE IF z.v <= -SatLogit THEN Zero
  ELSE Fin(Half)

\* log(1 + exp(z)), tabulated at the same logits
Softplus(z) ==
  IF z.nan THEN NaN
  ELSE IF z.v >= SatLogit THEN z
  ELSE IF z.v <= -SatLogit THEN Zero
  ELSE Fin(Ln2)

Neg(z) == IF z.nan THEN NaN ELSE Fin(-z.v)

\* ------------------------------------------------------------ nn.BCEWithLogitsLoss
Reductions == {"mean", "sum", "none"}

BCEWithLogitsLoss(pos_weight, reduction) ==
  [kind |-> "bce", pos_weight |-> pos_weight, reduction |-> reduction]

\* pos_weight * t * softplus(-z) + (1 - t) * softplus(z)
BCEElem(z, t, pos_weight) ==
  FAdd(FMul(Fin(pos_weight), FMul(t, Softplus(Neg(z)))),
       FMul(FSub(One, t), Softplus(z)))

Reduce(reduction, s) ==
  IF reduction = "mean" THEN Mean(s)
  ELSE IF reduction = "sum" THEN Sum(s)
  ELSE Vec(s)

BCE_forward(self, pred, true) ==
  Reduce(self.reduction,
         [k \in 1..Len(pred) |-> BCEElem(pred[k], true[k], self.pos_weight)])

\* ------------------------------------------------------------ FocalLoss
\* a wrapper that stores the reduction only after overwriting it
FocalLoss_init_StoresAfter(loss_fcn, gamma, alpha) ==
  [kind |-> "focal",
   loss_fcn |-> [loss_fcn EXCEPT !.reduction = "none"],
   gamma |-> gamma, alpha |-> alpha, reduction |-> "none"]

FocalLoss_init(loss_fcn, gamma, alpha) ==
  [kind |-> "focal",
   loss_fcn |-> [loss_fcn EXCEPT !.reduction = "none"],
   gamma |-> gamma, alpha |-> alpha, reduction |-> loss_fcn.reduction]

\* a weight that leaves out the class balance term
FocalWeight_NoAlpha(self, p, t) ==
  FPow(FSub(One, FAdd(FMul(t, Sigmoid(p)),
                      FMul(FSub(One, t), FSub(One, Sigmoid(p))))), self.gamma)

\* alpha_factor * modulating_factor of one element
FocalWeight(self, p, t) ==
  LET pred_prob == Sigmoid(p)
      p_t == FAdd(FMul(t, pred_prob), FMul(FSub(One, t), FSub(One, pred_prob)))
      alpha_factor == FAdd(FMul(t, Fin(self.alpha)),
                           FMul(FSub(One, t), Fin(Q - self.alpha)))
      modulating_factor == FPow(FSub(One, p_t), self.gamma)
  IN FMul(alpha_factor, modulating_factor)

\* the elements of `loss` after `loss *= alpha_factor * modulating_factor`
FocalElems(self, pred, true) ==
  LET loss == BCE_forward(self.loss_fcn, pred, true)
  IN [k \in 1..Len(pred) |-> FMul(loss.e[k], FocalWeight(self, pred[k], true[k]))]

FocalLoss_forward(self, pred, true) ==
  LET loss == BCE_forward(self.loss_fcn, pred, true)
  IN IF loss.dim # 1
     THEN Raised   \* in-place *= of a scalar tensor by a 1-d tensor
     ELSE Reduce(self.reduction, FocalElems(self, pred, true))

\* a forward that puts the base loss's reduction back when it is done
FocalLoss_after_forward_Restores(self) ==
  [self EXCEPT !.loss_fcn.reduction = self.reduction]

\* the wrapper after one forward call: forward assigns no field
FocalLoss_after_forward(self) == self

Call(obj, pred, true) ==
  IF obj.kind = "focal" THEN FocalLoss_forward(obj, pred, true)
  ELSE BCE_forward(obj, pred, true)

\* ------------------------------------------------------------ input domains
\* (logit, target) of one element handed to a loss function
Elems == {[z |-> Zero, t |-> One], [z |-> Zero, t |-> Fin(Half)],
          [z |-> Fin(SatLogit), t |-> Zero], [z |-> Fin(-SatLogit), t |-> Fin(Half)]}
\* pred and true, element by element, of up to MaxLen elements
Tensors == UNION {[1..n -> Elems] : n \in 1..MaxLen}
Pred(x) == [k \in 1..Len(x) |-> x[k].z]
True(x) == [k \in 1..Len(x) |-> x[k].t]
PosWeights == {2 * Q}
Gammas == {k * Q : k \in 0..MaxGamma}
Alphas == {Q \div 4, Half}

\* ------------------------------------------------------------ state
VARIABLES
  fl,        \* a FocalLoss object built on its own, or NoObj
  wrapped,   \* the base loss as it was handed to FocalLoss.__init__
  call,      \* arguments of the last direct call of a loss function
  floss,     \* FocalLoss.forward's local `loss` after the reweighting
  ret        \* what the last direct call returned

focalVars == <<fl, wrapped, call, floss, ret>>

NoObj == [kind |-> "none"]
NoCall == [fn |-> 0, pred |-> <<>>, true |-> <<>>]
NoRet == [dim |-> -2, e |-> <<>>]

FocalInit ==
  /\ fl = NoObj
  /\ wrapped = NoObj
  /\ call = NoCall
  /\ floss = <<>>
  /\ ret = NoRet

\* criteria = FocalLoss(nn.BCEWithLogitsLoss(pos_weight, reduction), gamma, alpha)
FocalWrap(reduction, pos_weight, gamma, alpha) ==
  /\ fl.kind = "none"
  /\ wrapped' = BCEWithLogitsLoss(pos_weight, reduction)
  /\ fl' = FocalLoss_init(wrapped', gamma, alpha)
  /\ UNCHANGED <<call, floss, ret>>

\* criteria(pred, true)
FocalForward(pred, true) ==
  /\ fl.kind = "focal"
  /\ call' = [fn |-> 0, pred |-> pred, true |-> true]
  /\ floss' = IF BCE_forward(fl.loss_fcn, pred, true).dim = 1
              THEN FocalElems(fl, pred, true) ELSE <<>>
  /\ ret' = FocalLoss_forward(fl, pred, true)
  /\ fl' = FocalLoss_after_forward(fl)
  /\ UNCHANGED wrapped

\* ------------------------------------------------------------ smooth_BCE
\* (positive, negative) label smoothing targets
smooth_BCE(eps) == <<Q - (Half * eps) \div Q, (Half * eps) \div Q>>

\* ------------------------------------------------------------ MultiHeadLoss
\* a Python list of floats, or None
None == [none |-> TRUE, v |-> <<>>]
List(v) == [none |-> FALSE, v |-> v]

\* `if not lambdas: lambdas = [1.0 for _ in range(len(losses) + 1)]`
DefaultedLambdas(losses, lambdas) ==
  IF lambdas.none \/ lambdas.v = <<>>
  THEN [k \in 1..(Len(losses) + 1) |-> Q]
  ELSE lambdas.v

\* an assertion that looks at the first weight only
LambdasAccepted_FirstOnly(lam) == lam[1] >= 0

\* `assert all(lam >= 0.0 for lam in lambdas)`
LambdasAccepted(lam) == \A k \in 1..Len(lam) : lam[k] >= 0

\* the object __init__ leaves, or a raised AssertionError
MultiHeadLoss_init(losses, cfg, lambdas) ==
  LET lam == DefaultedLambdas(losses, lambdas)
  IN IF LambdasAccepted(lam)
     THEN [kind |-> "mhl", losses |-> losses, lambdas |-> lam, cfg |-> cfg]
     ELSE [kind |-> "AssertionError"]

\* what get_loss(cfg, device) evaluates to
GetLoss(cfg) ==
  LET BCEcls == BCEWithLogitsLoss(cfg.CLS_POS_WEIGHT, "mean")
      BCEobj == BCEWithLogitsLoss(cfg.OBJ_POS_WEIGHT, "mean")
      BCEseg == BCEWithLogitsLoss(cfg.SEG_POS_WEIGHT, "mean")
      gamma == cfg.FL_GAMMA
      loss_list == IF gamma > 0
                   THEN <<FocalLoss_init(BCEcls, gamma, Q \div 4),
                          FocalLoss_init(BCEobj, gamma, Q \div 4), BCEseg>>
                   ELSE <<BCEcls, BCEobj, BCEseg>>
  IN MultiHeadLoss_init(loss_list, cfg, cfg.MULTI_HEAD_LAMBDA)

VARIABLES
  criterion, \* the MultiHeadLoss object get_loss returned, or NoObj
  arg,       \* the configuration get_loss was called with
  raised,    \* the exception the last operation raised, "" for none
  pc,        \* "idle", or "loop" inside _forward_impl
  model,     \* the model argument of the running forward: [gr, nc]
  no,        \* number of detection outputs
  i,         \* layer index of the next detection scale, from 1
  nt,        \* number of targets so far
  lcls, lbox, lobj, lseg,   \* the loss accumulators
  tobj,      \* objectness target of the scale processed last
  cur,       \* indices and IoU of the scale processed last
  out        \* what the last forward returned

aggVars == <<criterion, arg, raised, pc, model, no, i, nt, lcls, lbox, lobj, lseg,
             tobj, cur, out>>
locals == <<model, no, i, nt, lcls, lbox, lobj, lseg, tobj, cur>>
vars == <<fl, wrapped, call, floss, ret, criterion, arg, raised, pc, model, no, i, nt,
          lcls, lbox, lobj, lseg, tobj, cur, out>>

NoModel == [gr |-> 0, nc |-> 0]
NoCur == [n |-> 0, cell |-> <<>>, iou |-> <<>>]
NoOut == [returned |-> FALSE, loss |-> Zero, head |-> <<>>]
NoCfg == [none |-> TRUE]

AggInit ==
  /\ criterion = NoObj
  /\ arg = NoCfg
  /\ raised = ""
  /\ pc = "idle"
  /\ model = NoModel
  /\ no = 0
  /\ i = 0
  /\ nt = 0
  /\ lcls = Zero /\ lbox = Zero /\ lobj = Zero /\ lseg = Zero
  /\ tobj = <<>>
  /\ cur = NoCur
  /\ out = NoOut

\* criterion = get_loss(cfg, device), once, at training setup
get_loss(cfg) ==
  /\ arg.none
  /\ arg' = [none |-> FALSE, cfg |-> cfg]
  /\ LET r == GetLoss(cfg)
     IN IF r.kind = "mhl"
        THEN criterion' = r /\ raised' = ""
        ELSE criterion' = NoObj /\ raised' = r.kind
  /\ UNCHANGED <<pc, locals, out, focalVars>>

\* ------------------------------------------------------------ _forward_impl
NumCells == 2
MaxTargets == 2
NumPix == 1

Cells == 1..NumCells
IoUs == {Fin(-Half), One}
\* objectness logits of one scale: undecided at every cell
ObjTensors == {[c \in Cells |-> Zero]}
\* class logits of a matched cell: undecided in every class
ClsRow(nc) == [c \in 1..nc |-> Zero]
\* one match: its cell, the IoU bbox_iou gives it, its class
Match(nc) ==
  {[cell |-> c, iou |-> u, tcls |-> ((c - 1) % nc) + 1] : c \in Cells, u \in IoUs}
\* the order of the matches of a scale changes nothing below: take them sorted
Sorted(ms) ==
  \A k \in 1..(Len(ms) - 1) :
    \/ ms[k].cell < ms[k + 1].cell
    \/ ms[k].cell = ms[k + 1].cell /\ ms[k].iou.v <= ms[k + 1].iou.v
\* the matches build_targets may assign to one scale when `left` targets remain
MatchSets(nc, left) ==
  {ms \in UNION {[1..n -> Match(nc)] : n \in 0..left} : Sorted(ms)}
\* (logit, target) of one segmentation pixel; a diverged head gives a non-finite logit
SegPixels == {[z |-> Zero, t |-> One], [z |-> Fin(SatLogit), t |-> Zero],
              [z |-> NaN, t |-> One]}

Balance(n_out) ==
  IF n_out = 3 THEN <<4 * Q, Q, (4 * Q) \div 10>>
  ELSE <<4 * Q, Q, (4 * Q) \div 10, Q \div 10>>

Clamp0(x) == IF x.nan THEN NaN ELSE IF x.v < 0 THEN Zero ELSE x

\* an objectness target that forgets the clamp
ObjTarget_NoClamp(gr, iou) == FAdd(Fin(Q - gr), FMul(Fin(gr), iou))

\* (1.0 - model.gr) + model.gr * iou.detach().clamp(0)
ObjTarget(gr, iou) == FAdd(Fin(Q - gr), FMul(Fin(gr), Clamp0(iou)))

\* a classification branch taken for a single class too
ClsBranch_Always(nc) == nc >= 1

\* `if model.nc > 1`
ClsBranch(nc) == nc > 1

\* an objectness term that skips the all-background scale
ObjTerm_SkipsEmpty(BCEobj, pobj, t, k, n_out) ==
  IF \A c \in Cells : t[c] = Zero THEN Zero
  ELSE FMul(Call(BCEobj, pobj, t).e[1], Fin(Balance(n_out)[k]))

\* BCEobj(pi[..., 4], tobj) * balance[i]
ObjTerm(BCEobj, pobj, t, k, n_out) ==
  FMul(Call(BCEobj, pobj, t).e[1], Fin(Balance(n_out)[k]))

\* (1.0 - iou).mean()
BoxTerm(iou) == Mean([k \in 1..Len(iou) |-> FSub(One, iou[k])]).e[1]

\* ps[:, 5:] and its target t, row by row
ClsPred(matches, nc) ==
  [j \in 1..(Len(matches) * nc) |-> ClsRow(nc)[((j - 1) % nc) + 1]]
ClsTarget(matches, nc) ==
  LET cp == smooth_BCE(0)[1]
      cn == smooth_BCE(0)[2]
  IN [j \in 1..(Len(matches) * nc) |->
        IF matches[((j - 1) \div nc) + 1].tcls = ((j - 1) % nc) + 1
        THEN Fin(cp) ELSE Fin(cn)]

AfterCall(obj) == IF obj.kind = "focal" THEN FocalLoss_after_forward(obj) ELSE obj

ResetLocals ==
  /\ model' = NoModel /\ no' = 0 /\ i' = 0 /\ nt' = 0
  /\ lcls' = Zero /\ lbox' = Zero /\ lobj' = Zero /\ lseg' = Zero
  /\ tobj' = <<>> /\ cur' = NoCur

\* lines 69-82: build_targets, the accumulators, balance
ForwardBegin(n_out, nc, gr) ==
  /\ pc = "idle"
  /\ criterion.kind = "mhl"
  /\ pc' = "loop"
  /\ model' = [gr |-> gr, nc |-> nc]
  /\ no' = n_out
  /\ i' = 1
  /\ nt' = 0
  /\ lcls' = Zero /\ lbox' = Zero /\ lobj' = Zero /\ lseg' = Zero
  /\ tobj' = <<>>
  /\ cur' = NoCur
  /\ out' = NoOut
  /\ raised' = ""
  /\ call' = NoCall
  /\ ret' = NoRet
  /\ UNCHANGED <<criterion, arg, fl, wrapped, floss>>

\* one pass of the loop over predictions[0], lines 85-110
ForwardScale(matches, pobj) ==
  /\ pc = "loop"
  /\ i <= no
  /\ LET n == Len(matches)
         BCEcls == criterion.losses[1]
         BCEobj == criterion.losses[2]
         iou == [k \in 1..n |-> matches[k].iou]
         cls == n > 0 /\ ClsBranch(model.nc)
         clsRes == IF cls
                   THEN Call(BCEcls, ClsPred(matches, model.nc),
                             ClsTarget(matches, model.nc))
                   ELSE Scalar(Zero)
     IN \E w \in [Cells -> 0..n] :
          \* tobj[b, a, gj, gi] = ...: a cell indexed twice keeps either value
          /\ \A c \in Cells :
               IF \E k \in 1..n : matches[k].cell = c
               THEN w[c] > 0 /\ matches[w[c]].cell = c
               ELSE w[c] = 0
          /\ LET t == [c \in Cells |->
                        IF w[c] = 0 THEN Zero ELSE ObjTarget(model.gr, iou[w[c]])]
                 objRes == Call(BCEobj, pobj, t)
             IN IF clsRes.dim # 0 \/ objRes.dim # 0
                THEN /\ pc' = "idle"
                     /\ raised' = "RuntimeError"
                     /\ ResetLocals
                ELSE /\ pc' = "loop"
                     /\ raised' = ""
                     /\ i' = i + 1
                     /\ nt' = nt + n
                     /\ lbox' = IF n > 0 THEN FAdd(lbox, BoxTerm(iou)) ELSE lbox
                     /\ lcls' = IF cls THEN FAdd(lcls, clsRes.e[1]) ELSE lcls
                     /\ tobj' = t
                     /\ lobj' = FAdd(lobj, ObjTerm(BCEobj, pobj, t, i, no))
                     /\ cur' = [n |-> n,
                                cell |-> [k \in 1..n |-> matches[k].cell],
                                iou |-> iou]
                     /\ UNCHANGED <<model, no, lseg>>
          /\ criterion' = [criterion EXCEPT
                             !.losses[1] = IF cls THEN AfterCall(@) ELSE @,
                             !.losses[2] = AfterCall(@)]
  /\ UNCHANGED <<arg, out, focalVars>>

SegMaps == UNION {[1..n -> SegPixels] : n \in 1..NumPix}

\* product of two Python floats
PMul(a, b) == (a * b) \div Q

\* s = 3 / no
OutputScale(n_out) == (3 * Q) \div n_out

ClsScale(cfg, s, lam) == PMul(PMul(cfg.CLS_GAIN, s), lam[1])
ObjScale(cfg, s, n_out, lam) ==
  PMul(PMul(PMul(cfg.OBJ_GAIN, s), IF n_out = 4 THEN (14 * Q) \div 10 ELSE Q), lam[2])
BoxScale(cfg, s, lam) == PMul(PMul(cfg.BOX_GAIN, s), lam[3])
SegScale(cfg, lam) == PMul(cfg.SEG_GAIN, lam[4])

\* `if cfg.TRAIN.FREEZE_SEG: lseg = 0 * lseg`
FreezeSeg(cfg, x) == IF cfg.FREEZE_SEG THEN FMul(Zero, x) ELSE x

\* a total that leaves the segmentation term out
TotalLoss_NoSeg(box, obj, cls, seg) == FAdd(FAdd(box, obj), cls)

\* loss = lbox + lobj + lcls + lseg
TotalLoss(box, obj, cls, seg) == FAdd(FAdd(FAdd(box, obj), cls), seg)

\* (lbox.item(), lobj.item(), lcls.item(), lseg.item(), loss.item())
HeadLosses(box, obj, cls, seg, loss) == <<box, obj, cls, seg, loss>>

\* lines 112-127: segmentation loss, gains, freeze, total, return
ForwardFinish(segp, segt) ==
  /\ pc = "loop"
  /\ i > no
  /\ pc' = "idle"
  /\ LET cfg == criterion.cfg
         lam == criterion.lambdas
         BCEseg == criterion.losses[3]
         s == OutputScale(no)
     IN /\ IF Len(lam) < 4
           THEN /\ raised' = "IndexError"
                /\ out' = NoOut
                /\ ResetLocals
           ELSE LET cls == FMul(lcls, Fin(ClsScale(cfg, s, lam)))
                    obj == FMul(lobj, Fin(ObjScale(cfg, s, no, lam)))
                    box == FMul(lbox, Fin(BoxScale(cfg, s, lam)))
                    seg == FreezeSeg(cfg, FMul(Call(BCEseg, segp, segt).e[1],
                                               Fin(SegScale(cfg, lam))))
                    loss == TotalLoss(box, obj, cls, seg)
                IN /\ raised' = ""
                   /\ lcls' = cls /\ lobj' = obj /\ lbox' = box /\ lseg' = seg
                   /\ out' = [returned |-> TRUE, loss |-> loss,
                              head |-> HeadLosses(box, obj, cls, seg, loss)]
                   /\ tobj' = <<>>
                   /\ cur' = NoCur
                   /\ UNCHANGED <<model, no, i, nt>>
        /\ criterion' = [criterion EXCEPT !.losses[3] = AfterCall(@)]
  /\ UNCHANGED <<arg, focalVars>>

\* criterion.losses[k](pred, true), called on its own between forward passes
LossCall(k, pred, true) ==
  /\ pc = "idle"
  /\ criterion.kind = "mhl"
  /\ call' = [fn |-> k, pred |-> pred, true |-> true]
  /\ ret' = Call(criterion.losses[k], pred, true)
  /\ criterion' = [criterion EXCEPT !.losses[k] = AfterCall(@)]
  /\ raised' = IF ret'.dim = -1 THEN "RuntimeError" ELSE ""
  /\ out' = NoOut
  /\ ResetLocals
  /\ UNCHANGED <<arg, pc, fl, wrapped, floss>>

\* ------------------------------------------------------------ configurations
Cfg(gamma, gains, freeze, lambdas) ==
  [FL_GAMMA |-> gamma,
   CLS_POS_WEIGHT |-> Q, OBJ_POS_WEIGHT |-> Q, SEG_POS_WEIGHT |-> Q,
   CLS_GAIN |-> gains[1], OBJ_GAIN |-> gains[2],
   BOX_GAIN |-> gains[3], SEG_GAIN |-> gains[4],
   FREEZE_SEG |-> freeze, MULTI_HEAD_LAMBDA |-> lambdas]

MaxLambdas == 4
LamVals == {-Q, 0, Q}
\* (CLS_GAIN, OBJ_GAIN, BOX_GAIN, SEG_GAIN)
Gains1 == <<Half, Q, Q \div 20, Q \div 5>>
Gains2 == <<2 * Q, Q, Q, 3 * Q>>
Lambdas4 == List(<<2 * Q, 0, Q, Half>>)
Lambdas2 == List(<<Q, Q>>)
\* the configurations training is run with
FwdCfgs ==
  {Cfg(0, Gains1, FALSE, None), Cfg(Q, Gains2, FALSE, Lambdas4),
   Cfg(Q, Gains2, TRUE, Lambdas4), Cfg(Q, Gains1, FALSE, Lambdas2)}
BuildLambdas ==
  {None} \cup {List(v) : v \in UNION {[1..n -> LamVals] : n \in 0..MaxLambdas}}
BuildCfgs ==
  {Cfg(g, Gains1, FALSE, lam) : g \in {0, Q}, lam \in BuildLambdas}

\* the (number of detection outputs, model.nc, model.gr) of a forward
Models == {<<3, 1, Q>>, <<3, 2, Half>>, <<3, 2, 0>>,
           <<4, 1, Half>>, <<4, 2, Q>>, <<4, 2, 0>>}

\* ------------------------------------------------------------ specifications
Init == FocalInit /\ AggInit

\* training: get_loss once, then forward passes
Next ==
  \/ \E cfg \in FwdCfgs : get_loss(cfg)
  \/ \E m \in Models : ForwardBegin(m[1], m[2], m[3])
  \/ /\ pc = "loop"
     /\ \E matches \in MatchSets(model.nc, MaxTargets - nt), pobj \in ObjTensors :
          ForwardScale(matches, pobj)
  \/ \E px \in SegMaps : ForwardFinish(Pred(px), True(px))

Spec == Init /\ [][Next]_vars

\* the same, with the loss functions also called on their own in between
FrameCfgs == {Cfg(0, Gains1, FALSE, None), Cfg(Q, Gains2, FALSE, Lambdas4)}

NextFrame ==
  \/ \E cfg \in FrameCfgs : get_loss(cfg)
  \/ ForwardBegin(3, 2, Q)
  \/ /\ pc = "loop"
     /\ \E matches \in MatchSets(model.nc, MaxTargets - nt), pobj \in ObjTensors :
          ForwardScale(matches, pobj)
  \/ \E px \in SegMaps : ForwardFinish(Pred(px), True(px))
  \/ \E k \in 1..3, x \in Tensors : LossCall(k, Pred(x), True(x))

SpecFrame == Init /\ [][NextFrame]_vars

\* construction alone, over every weight vector up to MaxLambdas elements
NextBuild == \E cfg \in BuildCfgs : get_loss(cfg)

SpecBuild == Init /\ [][NextBuild]_vars

\* a FocalLoss built and called on its own
NextFocal ==
  \/ \E r \in Reductions, pw \in PosWeights, g \in Gammas, a \in Alphas :
       FocalWrap(r, pw, g, a) /\ UNCHANGED aggVars
  \/ \E x \in Tensors : FocalForward(Pred(x), True(x)) /\ UNCHANGED aggVars

SpecFocal == Init /\ [][NextFocal]_vars

\* ------------------------------------------------------------ properties
Called == call.pred # <<>>
BaseElem(k) == BCEElem(call.pred[k], call.true[k], wrapped.pos_weight)

\* C1: every forward that returns gives total = box + objectness +
\* classification + segmentation of its breakdown, and the breakdown is
\* (box, objectness, classification, segmentation, total) with the total last.
Thm_C1 ==
  out.returned =>
    /\ Len(out.head) = 5
    /\ out.head = <<lbox, lobj, lcls, lseg, out.loss>>
    /\ out.head[5] = out.loss
    /\ out.loss = FAdd(FAdd(FAdd(out.head[1], out.head[2]), out.head[3]), out.head[4])

Wit_C1 ==
  /\ out.returned
  /\ ~out.loss.nan
  /\ \A k \in 1..4 : out.head[k].v > 0
  /\ no = 4 /\ nt = MaxTargets
  /\ out.head[1] # out.head[2] /\ out.head[2] # out.head[3] /\ out.head[3] # out.head[4]

\* C2: a scale with no match leaves the box and classification accumulators
\* alone, has an all-zero objectness target, and still adds the objectness loss
\* against that target times balance[i].
Thm_C2 ==
  [][(pc = "loop" /\ pc' = "loop" /\ i' = i + 1 /\ cur'.n = 0) =>
       /\ lbox' = lbox
       /\ lcls' = lcls
       /\ \A c \in Cells : tobj'[c] = Zero
       /\ \E pobj \in ObjTensors :
            /\ Call(criterion.losses[2], pobj, [c \in Cells |-> Zero]).e[1].v > 0
            /\ lobj' = FAdd(lobj,
                 FMul(Call(criterion.losses[2], pobj, [c \in Cells |-> Zero]).e[1],
                      Fin(<<4 * Q, Q, (4 * Q) \div 10, Q \div 10>>[i])))]_vars

Wit_C2 ==
  /\ pc = "loop" /\ i = 4 /\ no = 4
  /\ cur.n = 0
  /\ nt > 0 /\ lbox.v > 0 /\ lcls.v > 0
  /\ \A c \in Cells : tobj[c] = Zero
  /\ criterion.losses[2].kind = "focal"

\* C3: a wrapper built around a base loss of reduction R applies R to the
\* reweighted elements on every call (their mean, their sum, or the elements),
\* while the base loss's own reduction field reads "none".
Thm_C3 ==
  (fl.kind = "focal" /\ Called) =>
    /\ fl.loss_fcn.reduction = "none"
    /\ Len(floss) = Len(call.pred)
    /\ \A k \in 1..Len(floss) :
         floss[k] = FMul(BaseElem(k), FocalWeight(fl, call.pred[k], call.true[k]))
    /\ wrapped.reduction = "mean" =>
         ret.dim = 0 /\ ret.e = <<FDivN(FSum(floss), Len(floss))>>
    /\ wrapped.reduction = "sum" => ret.dim = 0 /\ ret.e = <<FSum(floss)>>
    /\ wrapped.reduction = "none" => ret.dim = 1 /\ ret.e = floss

Wit_C3 ==
  /\ fl.kind = "focal" /\ Called
  /\ wrapped.reduction = "mean"
  /\ fl.loss_fcn.reduction = "none"
  /\ Len(floss) = 2 /\ floss[1].v > 0 /\ floss[2].v > floss[1].v
  /\ ret.dim = 0 /\ ret.e[1].v > floss[1].v

\* C4 as stated: with gamma = 0 and alpha = 0.5 every element the wrapper
\* computes is the base loss's unweighted elementwise value (factor 1).
Orig_C4 ==
  (fl.kind = "focal" /\ fl.gamma = 0 /\ fl.alpha = Half /\ Called) =>
    \A k \in 1..Len(call.pred) :
      /\ FocalWeight(fl, call.pred[k], call.true[k]) = One
      /\ floss[k] = BaseElem(k)

\* C4 amended: with gamma = 0 and alpha = 0.5 the reweighting factor is
\* identically 0.5 (= alpha), so every element is half the base loss's value.
Thm_C4 ==
  (fl.kind = "focal" /\ fl.gamma = 0 /\ fl.alpha = Half /\ Called) =>
    \A k \in 1..Len(call.pred) :
      /\ FocalWeight(fl, call.pred[k], call.true[k]) = Fin(Half)
      /\ floss[k] = FMul(BaseElem(k), Fin(Half))

Wit_C4 ==
  /\ fl.kind = "focal" /\ fl.gamma = 0 /\ fl.alpha = Half /\ Called
  /\ wrapped.reduction = "none"
  /\ Len(call.pred) = 2
  /\ call.true[1] = Fin(Half) /\ call.true[2] = One
  /\ BaseElem(1).v > 0 /\ BaseElem(2).v > 0
  /\ ret.e[1].v > 0

\* C5: get_loss with a weight vector holding a negative element raises at
\* construction and leaves no aggregator (so no forward can start); with a
\* vector of elements >= 0 it returns an aggregator.
Thm_C5 ==
  ~arg.none =>
    LET lam == arg.cfg.MULTI_HEAD_LAMBDA.v
    IN /\ (\E k \in 1..Len(lam) : lam[k] < 0) =>
            /\ criterion.kind = "none"
            /\ raised = "AssertionError"
            /\ ~ENABLED (\E m \in Models : ForwardBegin(m[1], m[2], m[3]))
       /\ (\A k \in 1..Len(lam) : lam[k] >= 0) =>
            criterion.kind = "mhl" /\ raised = ""

Wit_C5 ==
  /\ ~arg.none
  /\ arg.cfg.MULTI_HEAD_LAMBDA.v = <<Q, 0, Q, -Q>>
  /\ criterion.kind = "none"
  /\ raised = "AssertionError"

\* C6 as stated: with FREEZE_SEG set, the segmentation entry of the breakdown
\* is exactly 0 whatever the segmentation prediction and target, and the total
\* is box + objectness + classification.
Orig_C6 ==
  (out.returned /\ criterion.cfg.FREEZE_SEG) =>
    /\ out.head[4] = Zero
    /\ out.loss = FAdd(FAdd(out.head[1], out.head[2]), out.head[3])

\* C7: with nc = 1 the classification accumulator is never added to, so it is
\* 0 all through the loop and the classification entry of the breakdown is 0.
Thm_C7 ==
  model.nc = 1 =>
    /\ lcls = Zero
    /\ out.returned => out.head[3] = Zero

Wit_C7 ==
  /\ model.nc = 1
  /\ out.returned
  /\ nt = MaxTargets
  /\ out.head[1].v > 0
  /\ criterion.cfg.CLS_GAIN = 2 * Q
  /\ criterion.lambdas[1] = 2 * Q

\* C8 as stated: every aggregator that construction produces holds exactly 4
\* loss weights.
Orig_C8 == criterion.kind = "mhl" => Len(criterion.lambdas) = 4

Thm_C10 ==
  (pc = "loop" /\ cur.n > 0) =>
    \A c \in Cells :
      LET hits == {k \in 1..cur.n : cur.cell[k] = c}
      IN /\ hits = {} => tobj[c] = Zero
         /\ hits # {} =>
              \E k \in hits :
                tobj[c] = Fin((Q - model.gr)
                  + (model.gr * (IF cur.iou[k].v < 0 THEN 0 ELSE cur.iou[k].v)) \div Q)
         /\ (model.gr \in 0..Q /\ \A k \in 1..cur.n : cur.iou[k].v <= Q) =>
              ~tobj[c].nan /\ tobj[c].v \in 0..Q
         /\ (hits # {} /\ model.gr = Q /\ \A k \in hits : cur.iou[k] = One) =>
              tobj[c] = One

Wit_C10 ==
  /\ pc = "loop" /\ cur.n = 2
  /\ cur.cell = <<1, 1>>
  /\ cur.iou = <<Fin(-Half), One>>
  /\ model.gr = Half
  /\ tobj[1] = One
  /\ tobj[2] = Zero

====
